---- MODULE Spec2Model ----
(***************************************************************************)
(* ludusavi-runner: the scheduler's timed loop and its graceful shutdown   *)
(* (internal/app, Scheduler), with the goroutines that call Start and      *)
(* Stop, the governing contexts, the ticker, the cycles the loop starts    *)
(* and the grace-period monitor goroutine of each cycle. Beside it, one    *)
(* call of the HTTP retry client (internal/http, Client.Do) and one call   *)
(* of the cycle runner (internal/app, Runner.Run), each under its own      *)
(* specification.                                                          *)
(*                                                                         *)
(* A Start call that entered Running, its context and the two channels it  *)
(* made share one name, a small integer. A name is taken again once        *)
(* nothing refers to it any more (no loop, no waiting Stop, no monitor).   *)
(* Callers have no identity: a goroutine that is not inside Start or Stop  *)
(* has no state of its own.                                                *)
(***************************************************************************)
EXTENDS Integers, Sequences, FiniteSets, TLC

\* ---------------------------------------------------------------- bounds
\* Cycles whose monitor goroutine has not ended yet, at any one time.
MaxCycles == 2
\* Start calls that enter Running, over a behaviour.
MaxStarts == 2

Slots == 1..MaxCycles
Ids == 1..MaxStarts

VARIABLES
    backupOnStartup,  \* Scheduler.backupOnStartup (set at construction)
    metricsPusher,    \* Runner.metricsPusher: "nil" or "set"
    running,          \* Scheduler.running
    stopCh,           \* Scheduler.stopCh: the channel's name, 0 = nil
    stoppedCh,        \* Scheduler.stoppedCh: the channel's name, 0 = nil
    closedCh,         \* the closed channels: <<"stop", id>>, <<"stopped", id>>
    ctxDone,          \* the cancelled governing contexts
    loops,            \* the Start calls past the running check, a record each
    starts,           \* Start calls that entered Running so far
    lastRet,          \* what the latest Start call to return returned
    cycles,           \* per slot, a cycle and its monitor
    waiting,          \* per name, the Stop calls blocked on that stoppedCh
    panicked          \* the call that panicked and ended the process, or "none"

\* One call of Client.Do of the HTTP retry client (internal/http).
VARIABLES
    retry,            \* Client.retry: MaxAttempts, InitialDelay, MaxDelay
    reqCtx,           \* the calling context is cancelled
    doPc,             \* where the call is
    attempt,          \* Do's loop variable
    calls,            \* what httpClient.Do and the body read gave, per attempt
    lastErr,          \* Do's lastErr
    delay,            \* the delay of the wait in progress
    timerC,           \* the time.After channel of that wait has fired
    ret,              \* what Do returned
    body,             \* the reader the caller put in req.Body, nil or not
    bodyBytes,        \* Do's bodyBytes
    sent              \* the body each attempt's request carried

bodyVars == <<body, bodyBytes, sent>>
httpVars == <<retry, reqCtx, doPc, attempt, calls, lastErr, delay, timerC, ret,
              bodyVars>>

\* One call of Runner.Run of the cycle runner (internal/app).
VARIABLES
    config,           \* Runner.config: DryRun, Notify (Apprise.Notify)
    executor,         \* Runner.executor: "nil" or "set"
    notifier,         \* Runner.notifier: "nil" or "set"
    runCtx,           \* the context Run was given is cancelled
    runPc,            \* where the call is
    runResult,        \* Run's result, the RunResult
    events,           \* the calls Run made of its collaborators and their
                      \* returns (with the outcome's kind), in order
    runRet,           \* what Run returned
    notification      \* the notification Notify was given

runnerVars == <<config, executor, notifier, runCtx, runPc, runResult, events,
                runRet, notification>>

vars == <<backupOnStartup, metricsPusher, running, stopCh, stoppedCh, closedCh,
          ctxDone, loops, starts, lastRet, cycles, waiting, panicked, httpVars,
          runnerVars>>

\* What no step of the scheduler writes: its configuration, the HTTP
\* client, and the call of Run that is followed step by step.
confVars  == <<backupOnStartup, metricsPusher, httpVars, runnerVars>>
schedVars == <<running, stopCh, stoppedCh>>
chanVars  == <<closedCh, ctxDone>>

\* ------------------------------------------------------------- helpers
\* An unused slot.
NoCycle == [gen |-> 0, phase |-> "free", result |-> "none", cancelled |-> FALSE,
            done |-> FALSE, mon |-> "exit", timer |-> FALSE]

\* ctx.Done() of the governing context g is closed.
CtxDone(g) == g \in ctxDone

\* The derived context of the cycle in slot k is cancelled. It is derived
\* from context.Background(), so only its own cancel() cancels it.
BackupCtxDone_FromGoverning(k) == cycles[k].cancelled \/ CtxDone(cycles[k].gen)
BackupCtxDone(k) == cycles[k].cancelled

\* runner.Run of the cycle in slot k has been called and has not returned.
InFlight(k) == cycles[k].phase \in {"exec", "report"}

\* Scheduler.IsRunning
IsRunning == running

\* The check at the head of Start.
AlreadyRunning_Never == FALSE
AlreadyRunning == running

\* Where runBackup returns to: the startup call returns to the creation of
\* the ticker, a call from the loop to the loop's select.
AfterRunBackup_Again(l) == IF l.tickerC = "none" THEN "precheck" ELSE "select"
AfterRunBackup_AbortOnFailure(l) ==
    IF l.cur # 0 /\ cycles[l.cur].result = "failed" THEN "pushing"
    ELSE IF l.tickerC = "none" THEN "ticker" ELSE "select"
AfterRunBackup(l) == IF l.tickerC = "none" THEN "ticker" ELSE "select"

\* The name of the next Start call to enter Running.
NewId_Same == IF stopCh = 0 THEN 1 ELSE stopCh
NewId == starts + 1

\* What the program can still observe of the channels: a loop reads its
\* stopCh and closes its stoppedCh, a blocked Stop reads the stoppedCh it
\* took. The rest is garbage.
KeptCh(ls, w, chans) ==
    {e \in chans : \/ e[2] \in {l.gen : l \in ls}
                   \/ e[1] = "stopped" /\ w[e[2]] > 0}

\* What the program can still observe of the governing contexts: a loop
\* reads its context, and so does a monitor in its outer select.
KeptCtx(ls, c, ctxs) ==
    {g \in ctxs : \/ g \in {l.gen : l \in ls}
                  \/ \E k \in Slots : c[k].gen = g /\ c[k].mon = "select"}

\* A slot is free again once its cycle is over and its monitor has ended.
Collect(r) == IF r.phase = "closed" /\ r.mon = "exit" THEN NoCycle ELSE r
SetCycle(k, r) == [cycles EXCEPT ![k] = Collect(r)]

\* Loop l goes on as record m.
SetLoop(l, m) == (loops \ {l}) \cup {m}

\* ------------------------------------------------- the HTTP retry client
\* float64 and time.Duration (int64 nanoseconds), scaled down: a float
\* keeps MantissaBits significant bits (53 in float64) and overflows to +Inf
\* at 2^MaxExp (2^1024), a Duration has DurationBits value bits (63).
MantissaBits == 3
DurationBits == 5
MaxExp == 7

RECURSIVE Pow2(_)
Pow2(k) == IF k = 0 THEN 1 ELSE 2 * Pow2(k - 1)

MaxDuration == Pow2(DurationBits) - 1
Durations == (0 - Pow2(DurationBits))..MaxDuration

\* The largest e with 2^e <= x, for x >= 1.
RECURSIVE Log2(_)
Log2(x) == IF x < 2 THEN 0 ELSE 1 + Log2(x \div 2)

\* float64(x) for an integer x >= 0: x rounded to MantissaBits significant
\* bits, to nearest, ties to even. A float that is not negative is its
\* value; +Inf and NaN are FInf and FNaN.
FInf == 0 - 1
FNaN == 0 - 2

ToFloat(x) ==
    IF x < Pow2(MantissaBits) THEN x
    ELSE LET u    == Pow2(Log2(x) - (MantissaBits - 1))
             q    == x \div u
             r    == x % u
         IN  IF 2 * r > u \/ (2 * r = u /\ q % 2 = 1)
             THEN (q + 1) * u
             ELSE q * u

\* math.Pow(2, float64(k)) for k >= 0.
FPow2(k) == IF k >= MaxExp THEN FInf ELSE Pow2(k)

\* a * b in float64, for a float a >= 0 and b a power of two or +Inf:
\* exact unless it overflows; 0 * +Inf is NaN.
FMul(a, b) ==
    IF b = FInf THEN (IF a = 0 THEN FNaN ELSE FInf)
    ELSE IF a * b >= Pow2(MaxExp) THEN FInf
    ELSE a * b

\* a > b in float64, b finite: false when a is NaN.
FGreater(a, b) ==
    IF a = FNaN THEN FALSE
    ELSE IF a = FInf THEN TRUE
    ELSE a > b

\* time.Duration(f): the float's value when a Duration can hold it; what
\* the conversion gives otherwise depends on the implementation.
ToDuration(f) ==
    IF f \notin {FNaN, FInf} /\ f <= MaxDuration THEN {f} ELSE Durations

\* Client.calculateDelay(attempt): the delays it can return.
calculateDelay(cfg, n) ==
    LET d == FMul(ToFloat(cfg.InitialDelay), FPow2(n - 1))
    IN  IF FGreater(d, ToFloat(cfg.MaxDelay)) THEN {cfg.MaxDelay}
        ELSE ToDuration(d)

\* DefaultRetryConfig, in seconds.
DefaultRetryConfig == [MaxAttempts |-> 3, InitialDelay |-> 5, MaxDelay |-> 30]

\* A nil error. An error is a pair: its kind, and the attempt it is from or
\* the error it wraps.
NoError == <<"nil", 0>>

\* Do has not returned. The response Do returns is the number of the
\* attempt that received it, 0 for nil.
NoReturn == [resp |-> 0 - 1, err |-> NoError]

\* An io.Reader over data, pos bytes of it read; a broken one fails when it
\* is read. nil stands for a nil req.Body.
NilReader == [nil |-> TRUE, data |-> <<>>, pos |-> 0, broken |-> FALSE]

\* io.NopCloser(bytes.NewReader(b))
NewReader(b) == [nil |-> FALSE, data |-> b, pos |-> 0, broken |-> FALSE]

\* A []byte: nil, or the bytes.
NilBytes == [nil |-> TRUE, bytes |-> <<>>]
Bytes(b) == [nil |-> FALSE, bytes |-> b]

\* io.ReadAll(r): the bytes r has left, r at its end afterwards, and
\* whether the read failed.
ReadAll(r) ==
    [bytes |-> SubSeq(r.data, r.pos + 1, Len(r.data)),
     rest |-> [r EXCEPT !.pos = Len(r.data)],
     failed |-> r.broken]

\* No call of Do is in progress.
NoCall ==
    /\ body = NilReader
    /\ bodyBytes = NilBytes
    /\ sent = <<>>
    /\ retry = DefaultRetryConfig
    /\ reqCtx = FALSE
    /\ doPc = "idle"
    /\ attempt = 0
    /\ calls = <<>>
    /\ lastErr = NoError
    /\ delay = 0
    /\ timerC = FALSE
    /\ ret = NoReturn

\* The scheduler, constructed and never started.
NoScheduler ==
    /\ backupOnStartup = TRUE
    /\ metricsPusher = "nil"
    /\ running = FALSE
    /\ stopCh = 0
    /\ stoppedCh = 0
    /\ closedCh = {}
    /\ ctxDone = {}
    /\ loops = {}
    /\ starts = 0
    /\ lastRet = "none"
    /\ cycles = [k \in Slots |-> NoCycle]
    /\ waiting = [i \in Ids |-> 0]
    /\ panicked = "none"

\* The result of an operation: a *BackupResult, or nil.
NilResult == [Operation |-> "nil", Success |-> FALSE, Stats |-> 0, Error |-> ""]

\* domain.NewRunResult(dryRun)
NewRunResult(dryRun) ==
    [Success |-> FALSE, DryRun |-> dryRun, CloudUpload |-> NilResult,
     Backup |-> NilResult, Errors |-> <<>>, Completed |-> FALSE]

\* The result and the error Run has returned; before that, nothing.
NoRunReturn == [result |-> NewRunResult(FALSE), err |-> "none"]

\* No notification: Notify has not been called.
NoNotification == [severity |-> "none", msg |-> <<>>]

\* No call of Run is followed.
NoRun ==
    /\ notification = NoNotification
    /\ config = [DryRun |-> FALSE, Notify |-> "error"]
    /\ executor = "set"
    /\ notifier = "set"
    /\ runCtx = FALSE
    /\ runPc = "idle"
    /\ runResult = NewRunResult(FALSE)
    /\ events = <<>>
    /\ runRet = NoRunReturn

schedulerVars == <<backupOnStartup, metricsPusher, running, stopCh, stoppedCh,
                   closedCh, ctxDone, loops, starts, lastRet, cycles, waiting,
                   panicked, runnerVars>>

\* calculateDelay applied to a policy and an attempt number: the attempt
\* numbers up to MaxAttemptNo, the policies with delays a Duration holds.
MaxAttemptNo == 9

DelayInit ==
    /\ NoScheduler
    /\ NoRun
    /\ retry \in [MaxAttempts : {MaxAttemptNo}, InitialDelay : 0..MaxDuration,
                   MaxDelay : 0..MaxDuration]
    /\ attempt \in 1..MaxAttemptNo
    /\ reqCtx = FALSE
    /\ body = NilReader
    /\ bodyBytes = NilBytes
    /\ sent = <<>>
    /\ doPc = "calc"
    /\ calls = <<>>
    /\ lastErr = NoError
    /\ delay = 0
    /\ timerC = FALSE
    /\ ret = NoReturn

CalculateDelay ==
    /\ doPc = "calc"
    /\ delay' \in calculateDelay(retry, attempt)
    /\ doPc' = "wait"
    /\ UNCHANGED <<schedulerVars, retry, reqCtx, attempt, calls, lastErr,
                   timerC, ret, bodyVars>>

DelayNext == CalculateDelay

DelaySpec == DelayInit /\ [][DelayNext]_vars

\* Client.shouldRetry
Retryable == {429, 500, 502, 503, 504}
shouldRetry_Never(statusCode) == FALSE
shouldRetry_AnyError(statusCode) == statusCode >= 400
shouldRetry(statusCode) == statusCode \in Retryable

\* The status codes a target answers with here.
Statuses == {200, 400} \cup Retryable

\* What one attempt can give: httpClient.Do fails (a transport failure),
\* or it gives a response whose body io.ReadAll reads, or fails to read.
TransportFailure == [kind |-> "transport", status |-> 0, body |-> "none"]
Responses == [kind : {"response"}, status : Statuses, body : {"ok"}]
Unreadable == [kind : {"response"}, status : {200, 503}, body : {"unreadable"}]
Outcomes == {TransportFailure} \cup Responses \cup Unreadable

\* The largest MaxAttempts of the policies tried.
MaxTries == 3

\* The delays of the policies tried.
InitialDelays == {0, 1}
MaxDelays == {0, 2}

\* The bodies of the requests tried: none, an empty one, one of two bytes,
\* and one of two bytes whose reader fails.
RequestBodies ==
    {NilReader, NewReader(<<>>), NewReader(<<1, 2>>),
     [NewReader(<<1, 2>>) EXCEPT !.broken = TRUE]}

\* Do is called, with any of the policies, with a context that is live or
\* already cancelled, and with a request of any of the bodies.
ClientInit ==
    /\ NoScheduler
    /\ NoRun
    /\ body \in RequestBodies
    /\ bodyBytes = NilBytes
    /\ sent = <<>>
    /\ retry \in [MaxAttempts : 0..MaxTries, InitialDelay : InitialDelays,
                   MaxDelay : MaxDelays]
    /\ reqCtx \in BOOLEAN
    /\ doPc = "readbody"
    /\ attempt = 1
    /\ calls = <<>>
    /\ lastErr = NoError
    /\ delay = 0
    /\ timerC = FALSE
    /\ ret = NoReturn

\* The calling context is cancelled while Do runs.
CancelReq ==
    /\ doPc \in {"loop", "wait"}
    /\ ~reqCtx
    /\ reqCtx' = TRUE
    /\ UNCHANGED <<schedulerVars, retry, doPc, attempt, calls, lastErr, delay,
                   timerC, ret, bodyVars>>

\* Do returns (resp, err).
Return(resp, err) ==
    /\ ret' = [resp |-> resp, err |-> err]
    /\ doPc' = "returned"
    /\ UNCHANGED <<attempt, delay, timerC>>

\* Do waits for calculateDelay(attempt) before its next attempt.
Backoff ==
    /\ delay' \in calculateDelay(retry, attempt)
    /\ timerC' = FALSE
    /\ doPc' = "wait"
    /\ UNCHANGED <<attempt, ret>>

\* continue: the loop's next iteration.
Continue ==
    /\ attempt' = attempt + 1
    /\ doPc' = "loop"
    /\ UNCHANGED <<delay, timerC, ret>>

\* The error Do returns when its loop runs out of attempts.
Exhausted_Bare(e) == <<"exhausted", NoError>>
Exhausted(e) == <<"exhausted", e>>

\* The condition of the retry of a response: a retryable status and an
\* attempt left.
RetryStatus_AlsoLast(o) == shouldRetry(o.status)
RetryStatus(o) == shouldRetry(o.status) /\ attempt < retry.MaxAttempts

\* The error Do returns when it cannot read the request's body.
ReqBodyErr == <<"reqbody", 0>>

\* Do's first step: the request's body, if it has one, is read into
\* bodyBytes; Do returns if the read fails.
ReadBody ==
    /\ doPc = "readbody"
    /\ IF body.nil
       THEN /\ doPc' = "loop"
            /\ UNCHANGED <<body, bodyBytes, ret>>
       ELSE /\ body' = ReadAll(body).rest
            /\ IF ReadAll(body).failed
               THEN /\ doPc' = "returned"
                    /\ ret' = [resp |-> 0, err |-> ReqBodyErr]
                    /\ UNCHANGED bodyBytes
               ELSE /\ doPc' = "loop"
                    /\ bodyBytes' = Bytes(ReadAll(body).bytes)
                    /\ UNCHANGED ret
    /\ UNCHANGED <<schedulerVars, retry, reqCtx, attempt, calls, lastErr,
                   delay, timerC, sent>>

\* req.Body at an attempt: a new reader over bodyBytes when there are
\* any, otherwise what it was.
ResetBody_Once == body
ResetBody == IF bodyBytes.nil THEN body ELSE NewReader(bodyBytes.bytes)

\* The body the request of an attempt carries: what is left to read of its
\* req.Body, nothing for a nil one.
Carried(r) == IF r.nil THEN NilBytes ELSE Bytes(ReadAll(r).bytes)

\* One iteration of Do's loop: the reset of req.Body,
\* httpClient.Do(attemptReq), the read of the response body, and what Do
\* makes of the outcome o. With a cancelled context httpClient.Do fails.
Attempt(o) ==
    /\ doPc = "loop"
    /\ attempt <= retry.MaxAttempts
    /\ reqCtx => o = TransportFailure
    /\ calls' = Append(calls, o)
    /\ sent' = Append(sent, Carried(ResetBody))
    /\ UNCHANGED <<body, bodyBytes>>
    /\ IF o.kind = "transport"
       THEN /\ lastErr' = <<"transport", attempt>>
            /\ IF attempt < retry.MaxAttempts THEN Backoff ELSE Continue
       ELSE IF o.body = "unreadable"
       THEN /\ lastErr' = <<"read", attempt>>
            /\ Continue
       ELSE IF RetryStatus(o)
       THEN /\ lastErr' = <<"status", attempt>>
            /\ Backoff
       ELSE /\ Return(attempt, NoError)
            /\ UNCHANGED lastErr
    /\ UNCHANGED <<schedulerVars, retry, reqCtx>>

\* The delay elapses: time.After's channel fires.
DelayElapses ==
    /\ doPc = "wait"
    /\ ~timerC
    /\ timerC' = TRUE
    /\ UNCHANGED <<schedulerVars, retry, reqCtx, doPc, attempt, calls,
                   lastErr, delay, ret, bodyVars>>

\* The select of a wait, case <-time.After(delay): continue.
WaitElapsed ==
    /\ doPc = "wait"
    /\ timerC
    /\ Continue
    /\ UNCHANGED <<schedulerVars, retry, reqCtx, calls, lastErr, bodyVars>>

\* ctx.Err() of a cancelled context.
CtxErr_Exhausted == <<"exhausted", NoError>>
CtxErr == <<"ctx", 0>>

\* The select of a wait, case <-ctx.Done(): return nil, ctx.Err().
WaitCancelled ==
    /\ doPc = "wait"
    /\ reqCtx
    /\ Return(0, CtxErr)
    /\ UNCHANGED <<schedulerVars, retry, reqCtx, calls, lastErr, bodyVars>>

\* The loop ends, its attempts used up: return nil and the error that
\* wraps lastErr.
LoopExit ==
    /\ doPc = "loop"
    /\ attempt > retry.MaxAttempts
    /\ Return(0, Exhausted(lastErr))
    /\ UNCHANGED <<schedulerVars, retry, reqCtx, calls, lastErr, bodyVars>>

ClientNext ==
    \/ ReadBody
    \/ CancelReq
    \/ \E o \in Outcomes : Attempt(o)
    \/ DelayElapses
    \/ WaitElapsed
    \/ WaitCancelled
    \/ LoopExit

ClientSpec == ClientInit /\ [][ClientNext]_vars

\* ------------------------------------------------------------ Runner.Run
\* The largest game count in the statistics an operation reports.
MaxGames == 1

\* config.NotifyLevel: the three valid levels, and one that is not.
NotifyLevels == {"error", "warning", "always", "invalid"}

\* What Executor.CloudUpload or Executor.Backup gives for operation op: a
\* successful result with its statistics, an unsuccessful result with its
\* error text (LudusaviExecutor gives only these two), or no result and an
\* error.
Succeeds(op) ==
    {[kind |-> "ok",
      res |-> [Operation |-> op, Success |-> TRUE, Stats |-> n, Error |-> ""],
      err |-> ""] : n \in 0..MaxGames}
Fails(op) ==
    {[kind |-> "failed",
      res |-> [Operation |-> op, Success |-> FALSE, Stats |-> 0,
               Error |-> "exit status 1"],
      err |-> ""]}
Errs(op) == {[kind |-> "err", res |-> NilResult, err |-> "executor error"]}
ExecutorOutcomes(op) == Succeeds(op) \cup Fails(op) \cup Errs(op)

\* The result runCloudUpload and runBackup make up in a dry run:
\* NewBackupResult(op), Complete(true, nil).
DryRunResult(op) ==
    [Operation |-> op, Success |-> TRUE, Stats |-> 0, Error |-> ""]

\* Everything but the call of Run.
outsideRun == <<backupOnStartup, metricsPusher, schedVars, chanVars, loops,
                starts, lastRet, cycles, waiting, panicked, httpVars>>

\* Run is called: any configuration, any collaborators, a context that is
\* live or already cancelled.
RunnerInit ==
    /\ backupOnStartup = TRUE
    /\ metricsPusher \in {"nil", "set"}
    /\ running = FALSE
    /\ stopCh = 0
    /\ stoppedCh = 0
    /\ closedCh = {}
    /\ ctxDone = {}
    /\ loops = {}
    /\ starts = 0
    /\ lastRet = "none"
    /\ cycles = [k \in Slots |-> NoCycle]
    /\ waiting = [i \in Ids |-> 0]
    /\ panicked = "none"
    /\ NoCall
    /\ config \in [DryRun : BOOLEAN, Notify : NotifyLevels]
    /\ executor \in {"nil", "set"}
    /\ notifier \in {"nil", "set"}
    /\ runCtx \in BOOLEAN
    /\ runPc = "upload"
    /\ runResult = NewRunResult(config.DryRun)
    /\ events = <<>>
    /\ runRet = NoRunReturn
    /\ notification = NoNotification

\* The context of the call is cancelled while Run runs.
CancelRun ==
    /\ runPc \notin {"idle", "returned"}
    /\ ~runCtx
    /\ runCtx' = TRUE
    /\ UNCHANGED <<outsideRun, config, executor, notifier, runPc, runResult,
                   events, runRet, notification>>

\* A step of Run that leaves the collaborators and the context alone.
RunStep(pc, r, ev) ==
    /\ runPc' = pc
    /\ runResult' = r
    /\ events' = events \o ev
    /\ UNCHANGED <<outsideRun, config, executor, notifier, runCtx, runRet,
                   notification>>

\* r.config.DryRun, as runCloudUpload and runBackup read it.
DryRun_Ignored == FALSE
DryRun == config.DryRun

\* RunResult.AddError
AddError(r, err) ==
    IF err = "" THEN r ELSE [r EXCEPT !.Errors = Append(@, err)]

\* Where Run goes on after an operation gave an error: it logs it, records
\* it and goes on with the next statement.
OnOperationError_Abort(next) == "complete"
OnOperationError(next) == next

\* Run, if r.executor != nil: runCloudUpload is called, which in a dry run
\* makes the result up and otherwise calls Executor.CloudUpload.
CloudUploadCalled ==
    /\ runPc = "upload"
    /\ IF executor = "nil"
       THEN RunStep("complete", runResult, <<>>)
       ELSE IF DryRun
       THEN RunStep("backup",
                    [runResult EXCEPT
                        !.CloudUpload = DryRunResult("cloud_upload")],
                    <<>>)
       ELSE RunStep("uploading", runResult, <<"CloudUpload">>)

\* Executor.CloudUpload returns o; runCloudUpload returns it, or nil and
\* the wrapped error; Run records the error and the result.
CloudUploadReturns(o) ==
    /\ runPc = "uploading"
    /\ RunStep(IF o.err # "" THEN OnOperationError("backup") ELSE "backup",
               [AddError(runResult,
                         IF o.err # "" THEN "cloud upload error" ELSE "")
                   EXCEPT !.CloudUpload = o.res],
               <<"CloudUpload." \o o.kind>>)

\* runBackup is called, which in a dry run makes the result up and
\* otherwise calls Executor.Backup.
BackupCalled ==
    /\ runPc = "backup"
    /\ IF DryRun
       THEN RunStep("complete",
                    [runResult EXCEPT !.Backup = DryRunResult("backup")],
                    <<>>)
       ELSE RunStep("backingup", runResult, <<"Backup">>)

\* Executor.Backup returns o; runBackup returns it, or nil and the wrapped
\* error; Run records the error and the result.
BackupReturns(o) ==
    /\ runPc = "backingup"
    /\ RunStep(IF o.err # "" THEN OnOperationError("complete")
                              ELSE "complete",
               [AddError(runResult,
                         IF o.err # "" THEN "backup error" ELSE "")
                   EXCEPT !.Backup = o.res],
               <<"Backup." \o o.kind>>)

\* RunResult.Complete's success flag: every operation result that is there
\* is a success.
Succeeded_BackupOnly(r) == r.Backup = NilResult \/ r.Backup.Success
Succeeded(r) ==
    /\ r.CloudUpload = NilResult \/ r.CloudUpload.Success
    /\ r.Backup = NilResult \/ r.Backup.Success

\* result.Complete()
Complete ==
    /\ runPc = "complete"
    /\ RunStep("push",
               [runResult EXCEPT !.Success = Succeeded(runResult),
                                 !.Completed = TRUE],
               <<"Complete">>)

\* Where Run goes on once Push has been called: pushMetrics waits for it
\* to return.
AfterPushCalled_NoWait == "notify"
AfterPushCalled == "pushing"

\* pushMetrics: nothing without a pusher, otherwise MetricsPusher.Push.
PushCalled ==
    /\ runPc = "push"
    /\ IF metricsPusher = "nil"
       THEN RunStep("notify", runResult, <<>>)
       ELSE RunStep(AfterPushCalled, runResult, <<"Push">>)

\* Where Run goes on after Push gave an error: it logs it, records it and
\* goes on to the notifications.
OnPushError_Return == "return"
OnPushError == "notify"

\* Push returns err; Run records the error.
PushReturns(err) ==
    /\ runPc = "pushing"
    /\ RunStep(IF err # "" THEN OnPushError ELSE "notify",
               AddError(runResult, err),
               <<IF err # "" THEN "Push.err" ELSE "Push.ret">>)

\* sendNotifications' switch: the severity of the notification to send
\* for a result under a level, "none" when none is to be sent.
Notification_WarningSilent(level, success) ==
    IF ~success /\ level \in {"error", "always"} THEN "error"
    ELSE IF level = "always" THEN "info"
    ELSE "none"
Notification(level, success) ==
    IF ~success /\ level \in {"error", "warning", "always"} THEN "error"
    ELSE IF level = "always" THEN "info"
    ELSE "none"

\* The lines "Error: <entry>" of the entries of errors, in order.
ErrorLines(errors) == [i \in 1..Len(errors) |-> <<"Error", errors[i]>>]

\* Runner.buildErrorMessage: the lines of the message of a failure. A line
\* is its label and its text.
buildErrorMessage_NoAuxiliary(result) ==
    <<<<"Backup failed on", "hostname">>>>
    \o (IF result.CloudUpload # NilResult /\ ~result.CloudUpload.Success
        THEN <<<<"Cloud upload error", result.CloudUpload.Error>>>>
        ELSE <<>>)
    \o (IF result.Backup # NilResult /\ ~result.Backup.Success
        THEN <<<<"Backup error", result.Backup.Error>>>>
        ELSE <<>>)
buildErrorMessage(result) ==
    <<<<"Backup failed on", "hostname">>>>
    \o (IF result.CloudUpload # NilResult /\ ~result.CloudUpload.Success
        THEN <<<<"Cloud upload error", result.CloudUpload.Error>>>>
        ELSE <<>>)
    \o (IF result.Backup # NilResult /\ ~result.Backup.Success
        THEN <<<<"Backup error", result.Backup.Error>>>>
        ELSE <<>>)
    \o ErrorLines(result.Errors)

\* Runner.buildSuccessMessage: the lines of the message of a success, the
\* game counts of the backup when there is one (the duration is left out).
buildSuccessMessage(result) ==
    <<<<"Backup completed successfully on", "hostname">>>>
    \o (IF result.Backup # NilResult
        THEN <<<<"Games", result.Backup.Stats>>>>
        ELSE <<>>)

\* domain.ErrorNotification, domain.InfoNotification: the notification of
\* severity n for result.
NewNotification(n, result) ==
    [severity |-> n,
     msg |-> IF n = "error" THEN buildErrorMessage(result)
                            ELSE buildSuccessMessage(result)]

\* sendNotifications: nothing without a notifier; otherwise the policy is
\* evaluated and, if it says so, the notification is built and
\* Notifier.Notify is called with it.
SendNotifications ==
    /\ runPc = "notify"
    /\ IF notifier = "nil"
       THEN RunStep("return", runResult, <<>>)
       ELSE LET n == Notification(config.Notify, runResult.Success)
            IN  IF n = "none"
                THEN RunStep("return", runResult, <<"Evaluate">>)
                ELSE /\ runPc' = "notifying"
                     /\ events' = events \o <<"Evaluate", "Notify." \o n>>
                     /\ notification' = NewNotification(n, runResult)
                     /\ UNCHANGED <<outsideRun, config, executor, notifier,
                                    runCtx, runResult, runRet>>

\* Notify returns err, which Run only logs.
NotifyReturns(err) ==
    /\ runPc = "notifying"
    /\ RunStep("return", runResult,
               <<IF err # "" THEN "Notify.err" ELSE "Notify.ret">>)

\* The error Run returns with result r.
RunError_OnFailure(r) == IF r.Success THEN "nil" ELSE "run failed"
RunError(r) == "nil"

\* return result, nil
RunReturns ==
    /\ runPc = "return"
    /\ runPc' = "returned"
    /\ runRet' = [result |-> runResult, err |-> RunError(runResult)]
    /\ UNCHANGED <<outsideRun, config, executor, notifier, runCtx, runResult,
                   events, notification>>

RunnerNext ==
    \/ CancelRun
    \/ CloudUploadCalled
    \/ \E o \in ExecutorOutcomes("cloud_upload") : CloudUploadReturns(o)
    \/ BackupCalled
    \/ \E o \in ExecutorOutcomes("backup") : BackupReturns(o)
    \/ Complete
    \/ PushCalled
    \/ \E err \in {"", "push error"} : PushReturns(err)
    \/ SendNotifications
    \/ \E err \in {"", "notify error"} : NotifyReturns(err)
    \/ RunReturns

RunnerSpec == RunnerInit /\ [][RunnerNext]_vars

\* ----------------------------------------------------------------- Init
Init ==
    /\ backupOnStartup \in BOOLEAN
    /\ metricsPusher \in {"nil", "set"}
    /\ running = FALSE
    /\ stopCh = 0
    /\ stoppedCh = 0
    /\ closedCh = {}
    /\ ctxDone = {}
    /\ loops = {}
    /\ starts = 0
    /\ lastRet = "none"
    /\ cycles = [k \in Slots |-> NoCycle]
    /\ waiting = [i \in Ids |-> 0]
    /\ panicked = "none"
    /\ NoCall
    /\ NoRun

\* A panic no goroutine recovers ends the process: its goroutines, its
\* memory and its pending calls are gone.
Crashed(call) ==
    /\ panicked' = call
    /\ running' = FALSE
    /\ stopCh' = 0
    /\ stoppedCh' = 0
    /\ closedCh' = {}
    /\ ctxDone' = {}
    /\ loops' = {}
    /\ starts' = 0
    /\ lastRet' = "none"
    /\ cycles' = [k \in Slots |-> NoCycle]
    /\ waiting' = [i \in Ids |-> 0]
    /\ UNCHANGED confVars

\* ------------------------------------------------- the governing context
\* The caller of Start cancels the context it gave to its call.
CancelCtx(l) ==
    /\ panicked = "none"
    /\ ~CtxDone(l.gen)
    /\ ctxDone' = ctxDone \cup {l.gen}
    /\ UNCHANGED <<confVars, schedVars, closedCh, loops, starts, lastRet,
                   cycles, waiting, panicked>>

\* ---------------------------------------------------------------- Start
\* Start(ctx) up to its call of runBackup or the creation of the ticker.
\* done says whether ctx is already cancelled when Start is called.
Start(done) ==
    /\ panicked = "none"
    /\ IF AlreadyRunning
       THEN /\ lastRet' = "nil"
            /\ UNCHANGED <<schedVars, chanVars, loops, starts>>
       ELSE /\ starts < MaxStarts
            /\ starts' = starts + 1
            /\ running' = TRUE
            /\ stopCh' = NewId
            /\ stoppedCh' = NewId
            /\ closedCh' = KeptCh(loops, waiting, closedCh)
            /\ ctxDone' = KeptCtx(loops, cycles, ctxDone)
                             \cup (IF done THEN {NewId} ELSE {})
            /\ loops' = loops \cup
                 {[gen |-> NewId,
                   pc |-> IF backupOnStartup THEN "precheck" ELSE "ticker",
                   exit |-> "none", finals |-> 0, shutdown |-> "none",
                   cur |-> 0, tickerC |-> "none"]}
            /\ lastRet' = "none"
    /\ UNCHANGED <<confVars, cycles, waiting, panicked>>

\* A step of loop l that touches nothing but the loop's own state.
LoopStep(l, m) ==
    /\ loops' = SetLoop(l, m)
    /\ UNCHANGED <<confVars, schedVars, chanVars, starts, lastRet, cycles,
                   waiting, panicked>>

\* time.NewTicker(s.interval)
NewTicker(l) ==
    /\ panicked = "none"
    /\ l.pc = "ticker"
    /\ LoopStep(l, [l EXCEPT !.tickerC = "empty", !.pc = "select"])

\* The interval elapses: the ticker puts a tick in its channel of capacity
\* one (a tick that finds the channel full is dropped).
Tick(l) ==
    /\ panicked = "none"
    /\ l.tickerC = "empty"
    /\ LoopStep(l, [l EXCEPT !.tickerC = "full"])

\* The loop's select, case <-ticker.C: runBackup(ctx) is called.
SelectTick(l) ==
    /\ panicked = "none"
    /\ l.pc = "select"
    /\ l.tickerC = "full"
    /\ LoopStep(l, [l EXCEPT !.tickerC = "empty", !.pc = "precheck"])

\* ------------------------------------------------------------- runBackup
\* runBackup's pre-check: return at once when ctx is already cancelled.
Precheck_Blind(l) ==
    /\ panicked = "none"
    /\ l.pc = "precheck"
    /\ LoopStep(l, [l EXCEPT !.pc = "spawn"])
Precheck(l) ==
    /\ panicked = "none"
    /\ l.pc = "precheck"
    /\ LoopStep(l, [l EXCEPT !.pc = IF CtxDone(l.gen) THEN AfterRunBackup(l)
                                                      ELSE "spawn"])

\* runBackup creates backupCtx and done, starts the monitor goroutine and
\* calls runner.Run(backupCtx).
Spawn(l) ==
    /\ panicked = "none"
    /\ l.pc = "spawn"
    /\ \E k \in Slots :
         /\ cycles[k] = NoCycle
         /\ \A j \in Slots : cycles[j] = NoCycle => k <= j
         /\ cycles' = [cycles EXCEPT ![k] =
               [gen |-> l.gen, phase |-> "exec", result |-> "none",
                cancelled |-> FALSE, done |-> FALSE, mon |-> "select",
                timer |-> FALSE]]
         /\ loops' = SetLoop(l, [l EXCEPT !.pc = "run", !.cur = k])
    /\ UNCHANGED <<confVars, schedVars, chanVars, starts, lastRet, waiting,
                   panicked>>

\* A step of the cycle or of the monitor in slot k that leaves r as the
\* slot's record.
CycleStep(k, r) ==
    /\ cycles' = SetCycle(k, r)
    /\ closedCh' = KeptCh(loops, waiting, closedCh)
    /\ ctxDone' = KeptCtx(loops, cycles', ctxDone)
    /\ UNCHANGED <<confVars, schedVars, loops, starts, lastRet, waiting,
                   panicked>>

\* runner.Run, the two operations (CloudUpload, then Backup), ending on
\* their own with either outcome.
RunOperations(k) ==
    /\ panicked = "none"
    /\ cycles[k].phase = "exec"
    /\ \E r \in {"ok", "failed"} :
         CycleStep(k, [cycles[k] EXCEPT !.phase = "report", !.result = r])

\* runner.Run, the two operations unwinding because backupCtx is cancelled
\* (exec.CommandContext kills the external tool).
RunOperationsCancelled(k) ==
    /\ panicked = "none"
    /\ cycles[k].phase = "exec"
    /\ BackupCtxDone(k)
    /\ CycleStep(k, [cycles[k] EXCEPT !.phase = "report", !.result = "failed"])

\* The rest of the cycle: runner.Run reports (pushMetrics with
\* ServiceUp = true when a pusher is configured, then sendNotifications)
\* and returns (result, nil), which runBackup drops; then runBackup does
\* close(done); cancel() and returns.
RunReport(l) ==
    /\ panicked = "none"
    /\ l.pc = "run"
    /\ cycles[l.cur].phase = "report"
    /\ cycles' = SetCycle(l.cur, [cycles[l.cur] EXCEPT
                                    !.phase = "closed", !.result = "none",
                                    !.done = TRUE, !.cancelled = TRUE,
                                    !.timer = FALSE,
                                    !.mon = IF @ = "exit" THEN @ ELSE "ending"])
    /\ loops' = SetLoop(l, [l EXCEPT
                   !.pc = AfterRunBackup(l), !.cur = 0,
                   !.shutdown = IF ~CtxDone(l.gen) THEN @
                                ELSE IF cycles[l.cur].timer THEN "expired"
                                ELSE "finished"])
    /\ closedCh' = KeptCh(loops', waiting, closedCh)
    /\ ctxDone' = KeptCtx(loops', cycles', ctxDone)
    /\ UNCHANGED <<confVars, schedVars, starts, lastRet, waiting, panicked>>

\* --------------------------------------------- the monitor of one cycle
MonitorDone_AfterTimer(k) ==
    /\ panicked = "none"
    /\ cycles[k].mon = "ending"
    /\ cycles[k].timer
    /\ CycleStep(k, [cycles[k] EXCEPT !.mon = "exit"])

\* The monitor after close(done): the done case of the select it is in is
\* ready, and the goroutine ends. (Should the select take another ready
\* case first, the goroutine ends all the same and changes nothing:
\* cancel() on a cancelled context does nothing.)
MonitorDone(k) ==
    /\ panicked = "none"
    /\ cycles[k].mon = "ending"
    /\ CycleStep(k, [cycles[k] EXCEPT !.mon = "exit"])

\* What the monitor does when it sees the governing context cancelled: it
\* leaves backupCtx alone and waits in its inner select.
OnShutdown_CancelNow(r) == [r EXCEPT !.mon = "exit", !.cancelled = TRUE]
OnShutdown(r) == [r EXCEPT !.mon = "grace"]

\* Outer select, case <-ctx.Done(): the grace timer is started.
MonitorShutdown(k) ==
    /\ panicked = "none"
    /\ cycles[k].mon = "select"
    /\ CtxDone(cycles[k].gen)
    /\ CycleStep(k, OnShutdown(cycles[k]))

\* The two minutes of time.After elapse.
GraceTimer(k) ==
    /\ panicked = "none"
    /\ cycles[k].mon = "grace"
    /\ ~cycles[k].timer
    /\ CycleStep(k, [cycles[k] EXCEPT !.timer = TRUE])

\* What the monitor does to backupCtx when the grace period has expired.
ExpiredCancel_Forgotten(r) == r
ExpiredCancel(r) == [r EXCEPT !.cancelled = TRUE]

\* Inner select, case <-time.After(2 * time.Minute): cancel().
MonitorGraceExpired(k) ==
    /\ panicked = "none"
    /\ cycles[k].mon = "grace"
    /\ cycles[k].timer
    /\ CycleStep(k, ExpiredCancel([cycles[k] EXCEPT !.mon = "exit"]))

\* -------------------------------------------------------- runFinalBackup
\* runFinalBackup up to its call of Push, under a context with a timeout of
\* its own: one snapshot with ServiceUp = false when a pusher is
\* configured, none otherwise.
runFinalBackup_NoPush(l) == [l EXCEPT !.pc = "pushing"]
runFinalBackup(l) ==
    [l EXCEPT !.pc = "pushing",
              !.finals = IF metricsPusher = "set" THEN @ + 1 ELSE @]

\* The loop's select, case <-ctx.Done().
SelectCtx(l) ==
    /\ panicked = "none"
    /\ l.pc = "select"
    /\ CtxDone(l.gen)
    /\ LoopStep(l, runFinalBackup([l EXCEPT !.exit = "ctx"]))

\* The loop's select, case <-s.stopCh.
SelectStop(l) ==
    /\ panicked = "none"
    /\ l.pc = "select"
    /\ <<"stop", stopCh>> \in closedCh
    /\ LoopStep(l, runFinalBackup([l EXCEPT !.exit = "stop"]))

\* What Start returns after the loop: ctx.Err() from the ctx.Done() case,
\* nil from the stopCh case.
ReturnValue_AlwaysNil(e) == "nil"
ReturnValue(e) == IF e = "ctx" THEN "ctxErr" ELSE "nil"

\* Start is at its return statement: runFinalBackup has been called and
\* its Push is about to return.
AtReturn_PushSkipped(l) == l.pc = "select" /\ CtxDone(l.gen)
AtReturn(l) == l.pc = "pushing"

\* Push returns (delivered, failed or timed out: the error is only logged),
\* runFinalBackup returns, and Start returns through its deferred calls:
\* ticker.Stop(), then under the mutex running = false and
\* close(s.stoppedCh). Closing a closed channel panics.
Teardown(l) ==
    /\ panicked = "none"
    /\ AtReturn(l)
    /\ IF <<"stopped", stoppedCh>> \in closedCh
       THEN Crashed("Start")
       ELSE /\ running' = FALSE
            /\ loops' = loops \ {l}
            /\ closedCh' = KeptCh(loops', waiting,
                                closedCh \cup {<<"stopped", stoppedCh>>})
            /\ ctxDone' = KeptCtx(loops', cycles, ctxDone)
            /\ lastRet' = ReturnValue(l.exit)
            /\ UNCHANGED <<confVars, stopCh, stoppedCh, starts, cycles,
                           waiting, panicked>>

\* ----------------------------------------------------------------- Stop
\* Stop up to its wait: under the mutex, return when not running, else
\* close(s.stopCh) and take s.stoppedCh. Closing a closed channel panics.
Stop ==
    /\ panicked = "none"
    /\ IF ~running
       THEN UNCHANGED vars
       ELSE IF <<"stop", stopCh>> \in closedCh
       THEN Crashed("Stop")
       ELSE /\ closedCh' = closedCh \cup {<<"stop", stopCh>>}
            /\ waiting' = [waiting EXCEPT ![stoppedCh] = @ + 1]
            /\ UNCHANGED <<confVars, schedVars, ctxDone, loops, starts,
                           lastRet, cycles, panicked>>

\* Stop's wait: <-stoppedCh, then return.
StopReturn(i) ==
    /\ panicked = "none"
    /\ waiting[i] > 0
    /\ <<"stopped", i>> \in closedCh
    /\ waiting' = [waiting EXCEPT ![i] = @ - 1]
    /\ closedCh' = KeptCh(loops, waiting', closedCh)
    /\ UNCHANGED ctxDone
    /\ UNCHANGED <<confVars, schedVars, loops, starts, lastRet, cycles,
                   panicked>>

\* ------------------------------------------------------- specifications
Next ==
    \/ \E l \in loops : CancelCtx(l)
    \/ \E done \in BOOLEAN : Start(done)
    \/ \E l \in loops : NewTicker(l)
    \/ \E l \in loops : Tick(l)
    \/ \E l \in loops : SelectCtx(l)
    \/ \E l \in loops : SelectStop(l)
    \/ \E l \in loops : SelectTick(l)
    \/ \E l \in loops : Precheck(l)
    \/ \E l \in loops : Spawn(l)
    \/ \E k \in Slots : RunOperations(k)
    \/ \E k \in Slots : RunOperationsCancelled(k)
    \/ \E l \in loops : RunReport(l)
    \/ \E k \in Slots : MonitorDone(k)
    \/ \E k \in Slots : MonitorShutdown(k)
    \/ \E k \in Slots : GraceTimer(k)
    \/ \E k \in Slots : MonitorGraceExpired(k)
    \/ \E l \in loops : Teardown(l)
    \/ Stop
    \/ \E i \in Ids : StopReturn(i)

Spec == Init /\ [][Next]_vars

\* The schedule the Go runtime and the clock give a cycle: its monitor
\* takes the steps it can take, a started timer fires, a cancelled external
\* tool unwinds, and a cycle whose operations are over reports and returns.
\* Nothing is assumed of the callers of Start and Stop, of the cancellation
\* of a context, of the ticker, or of an operation ending on its own.
Fairness ==
    /\ WF_vars(\E k \in Slots : MonitorShutdown(k))
    /\ WF_vars(\E k \in Slots : GraceTimer(k))
    /\ WF_vars(\E k \in Slots : MonitorGraceExpired(k))
    /\ WF_vars(\E k \in Slots : RunOperationsCancelled(k))
    /\ WF_vars(\E l \in loops : RunReport(l))

GraceSpec == Init /\ [][Next]_vars /\ Fairness

\* The scheduling of a monitor whose cycle has returned: each goroutine in
\* a select with a ready case (done is closed) runs. The runner has its
\* metrics pusher, as the run command builds it; no monitor reads it.
MonitorInit == Init /\ metricsPusher = "set"

MonitorSpec ==
    MonitorInit /\ [][Next]_vars /\ \A k \in Slots : WF_vars(MonitorDone(k))

\* ----------------------------------------------------- what is checked
\* The names of the loops in ls.
Gens(ls) == {l.gen : l \in ls}

\* This step is the return of loop l's Start call through its teardown.
Returns(l) ==
    /\ l.pc = "pushing"
    /\ l.gen \notin Gens(loops')
    /\ panicked' = "none"

\* What runFinalBackup pushes under the configuration: one snapshot when a
\* pusher is configured, nothing otherwise.
FinalPushes == IF metricsPusher = "set" THEN 1 ELSE 0

\* C1: at most one cycle of a Scheduler is executing at any time, whatever
\* the interleaving of Start calls, ticks, Stop calls, cancellations and
\* grace-period expiry; a tick that fires while a cycle is in flight does
\* not start a second one.
C1_AtMostOneCycle ==
    /\ Cardinality({k \in Slots : InFlight(k)}) <= 1
    /\ \A k \in Slots : InFlight(k) =>
          \E l \in loops : l.gen = cycles[k].gen /\ l.pc = "run" /\ l.cur = k

\* C1, its case: a tick is pending while a cycle is in flight in its grace
\* period.
C1_Witness ==
    \E l \in loops :
        /\ l.pc = "run"
        /\ l.tickerC = "full"
        /\ InFlight(l.cur)
        /\ cycles[l.cur].mon = "grace"

\* C2 (as amended): when the governing context is cancelled while a cycle is
\* in flight and the cycle finishes before the grace period elapses, the
\* cycle's own context is not cancelled while the cycle runs, and Start
\* returns after exactly one final "service down" push when a metrics
\* pusher is configured (after none when no pusher is configured).
C2_FinishedInGrace ==
    /\ [](\A k \in Slots :
            InFlight(k) /\ ~cycles[k].timer => ~BackupCtxDone(k))
    /\ [][\A l \in loops :
            Returns(l) /\ l.shutdown = "finished" => l.finals = FinalPushes]_vars

\* C2, its case: the context was cancelled during the last cycle, the cycle
\* finished within the grace period, and the final push has been made.
C2_Witness ==
    \E l \in loops :
        /\ l.pc = "pushing"
        /\ l.shutdown = "finished"
        /\ l.exit = "ctx"
        /\ l.finals = 1

\* C2 as stated: the same, with exactly one final push whatever the
\* configuration.
C2_AsStated ==
    /\ [](\A k \in Slots :
            InFlight(k) /\ ~cycles[k].timer => ~BackupCtxDone(k))
    /\ [][\A l \in loops :
            Returns(l) /\ l.shutdown = "finished" => l.finals = 1]_vars

\* C3 (as amended): when the governing context is cancelled while a cycle is
\* in flight and the cycle has not finished when the grace period elapses,
\* the monitor cancels the cycle's derived context, the cycle then ends
\* even if its operations would never end on their own, and Start returns
\* after exactly one final "service down" push when a metrics pusher is
\* configured (after none when no pusher is configured).
C3_GraceExpired ==
    /\ [](\A k \in Slots :
            InFlight(k) /\ cycles[k].mon = "exit" => BackupCtxDone(k))
    /\ (\E k \in Slots : InFlight(k) /\ CtxDone(cycles[k].gen))
            ~> (\A k \in Slots : ~InFlight(k))
    /\ [][\A l \in loops :
            Returns(l) /\ l.shutdown = "expired" => l.finals = FinalPushes]_vars

\* C3, its case: the grace period expired on the last cycle, its context
\* was cancelled, it unwound, and the final push has been made.
C3_Witness ==
    \E l \in loops :
        /\ l.pc = "pushing"
        /\ l.shutdown = "expired"
        /\ l.finals = 1

\* C3 as stated: the same, with exactly one final push whatever the
\* configuration.
C3_AsStated ==
    /\ [](\A k \in Slots :
            InFlight(k) /\ cycles[k].mon = "exit" => BackupCtxDone(k))
    /\ [][\A l \in loops :
            Returns(l) /\ l.shutdown = "expired" => l.finals = 1]_vars

\* C4: when Stop() is called while a cycle is in flight and the governing
\* context is not cancelled, the cycle gets the grace period and is
\* cancelled by force at its end: sooner or later the cycle is over or its
\* context is cancelled (or the governing context is cancelled after all).
C4_StopGrace ==
    (\E k \in Slots : InFlight(k) /\ <<"stop", cycles[k].gen>> \in closedCh)
        ~> (\A k \in Slots :
               InFlight(k) => BackupCtxDone(k) \/ CtxDone(cycles[k].gen))

\* C5: the context of a cycle is independent of the governing context: a
\* cycle in flight has its context cancelled only when the governing
\* context was cancelled and the grace timer, started after that, has
\* fired; while the timer has not fired the context is live.
C5_Independent ==
    \A k \in Slots :
        /\ InFlight(k) /\ BackupCtxDone(k) =>
              CtxDone(cycles[k].gen) /\ cycles[k].timer
        /\ cycles[k].timer => CtxDone(cycles[k].gen) /\ cycles[k].mon # "select"

\* C5, its case: the governing context is cancelled, the timer has not
\* fired, and the cycle in flight runs on a live context.
C5_Witness ==
    \E k \in Slots :
        /\ InFlight(k)
        /\ CtxDone(cycles[k].gen)
        /\ cycles[k].mon = "grace"
        /\ ~cycles[k].timer
        /\ ~BackupCtxDone(k)

\* C6 (as amended): every Start call that entered Running makes its final
\* "service down" push attempt before it returns, whichever trigger ended
\* it and even when its context is cancelled: exactly one attempt when a
\* metrics pusher is configured, none when no pusher is configured.
C6_OneFinalPush ==
    /\ [](\A l \in loops :
            l.finals = IF l.pc = "pushing" THEN FinalPushes ELSE 0)
    /\ [][\A l \in loops :
            Returns(l) => l.finals = FinalPushes /\ l.exit \in {"ctx", "stop"}]_vars

\* C6, its case: a loop ended by Stop() alone, no context cancelled, has
\* made its final push and is about to return.
C6_Witness ==
    \E l \in loops :
        /\ l.pc = "pushing"
        /\ l.exit = "stop"
        /\ ~CtxDone(l.gen)
        /\ l.finals = 1

\* C6 as stated: exactly one final push attempt before every return,
\* whatever the configuration.
C6_AsStated ==
    [][\A l \in loops : Returns(l) => l.finals = 1]_vars

\* C7: the scheduler becomes Stopped only after the final push attempt:
\* while a loop has not torn down, the final push included, IsRunning() is
\* true and its stopped channel is open; running is cleared by the step
\* that ends the push, and a Stop() caller returns only when the loop it
\* waited for is gone.
C7_StoppedAfterPush ==
    /\ [](\A l \in loops : IsRunning /\ <<"stopped", l.gen>> \notin closedCh)
    /\ [][running /\ ~running' /\ panicked' = "none" =>
            \E l \in loops : l.pc = "pushing" /\ l.gen \notin Gens(loops')]_vars
    /\ [][\A i \in Ids :
            waiting'[i] < waiting[i] /\ panicked' = "none" =>
               i \notin Gens(loops)]_vars

\* C7, its case: the final push is in progress while a Stop() caller is
\* blocked on the loop.
C7_Witness ==
    \E l \in loops :
        /\ l.pc = "pushing"
        /\ l.finals = 1
        /\ waiting[l.gen] > 0

\* C8: Start on a running scheduler returns nil at once and creates no
\* second loop: there is at most one loop, and while the scheduler runs no
\* step replaces the stop and stopped channels or adds a loop.
C8_StartWhileRunning ==
    /\ [](Cardinality(loops) <= 1)
    /\ [][running /\ panicked' = "none" =>
            /\ stopCh' = stopCh
            /\ stoppedCh' = stoppedCh
            /\ Gens(loops') \subseteq Gens(loops)]_vars
    /\ [][running /\ running' /\ lastRet' # lastRet =>
            lastRet' = "nil" /\ loops' = loops]_vars

\* C8, its case: a second Start has returned nil while the loop of the
\* first is in its select.
C8_Witness ==
    /\ running
    /\ lastRet = "nil"
    /\ \E l \in loops : l.pc = "select" /\ l.gen = stopCh

\* C9: a Stop() called on a running scheduler blocks until the loop it
\* stops has torn down, and does not return while a cycle of that loop is
\* in flight: no such call ends in a panic, and a blocked call returns
\* only when the loop is gone and none of its cycles is in flight.
C9_StopBlocks ==
    /\ [](panicked # "Stop")
    /\ [][\A i \in Ids :
            waiting'[i] < waiting[i] /\ panicked' = "none" =>
               /\ i \notin Gens(loops)
               /\ \A k \in Slots : cycles[k].gen = i => ~InFlight(k)]_vars

\* C10: a Start that ran the loop returns when the scheduler stops: the
\* context's error when the loop left through ctx.Done(), the context
\* being cancelled indeed; nil when it left through the stop channel,
\* closed by Stop(); and never anything else, a cycle's error included.
C10_ReturnValue ==
    /\ [](lastRet \in {"none", "nil", "ctxErr"})
    /\ [][\A l \in loops :
            Returns(l) =>
               /\ running /\ ~running'
               /\ l.exit \in {"ctx", "stop"}
               /\ l.exit = "ctx" => lastRet' = "ctxErr" /\ CtxDone(l.gen)
               /\ l.exit = "stop" =>
                     lastRet' = "nil" /\ <<"stop", l.gen>> \in closedCh]_vars

\* C10, its case: a Start that ran the loop has returned the context's error
\* and the scheduler is stopped.
C10_Witness ==
    /\ lastRet = "ctxErr"
    /\ ~running
    /\ loops = {}

\* The loop of l's Start call, in the next state, goes on as m.
GoesOn(l, m) == m \in loops' /\ m.gen = l.gen

\* No shutdown signal has been given to loop l: its context is live and its
\* stop channel is open.
NoSignal(l) == ~CtxDone(l.gen) /\ <<"stop", l.gen>> \notin closedCh

\* C11: with run-on-startup configured and the governing context live,
\* exactly one cycle runs to completion between entering Running and the
\* creation of the ticker, so before any tick can be handled; with
\* run-on-startup disabled the call goes straight to the ticker and no
\* cycle of it exists before the ticker does.
C11_StartupCycle ==
    /\ [](\A l \in loops :
            /\ l.tickerC = "none" =>
                  /\ l.pc \in (IF backupOnStartup
                               THEN {"precheck", "spawn", "run", "ticker"}
                               ELSE {"ticker"})
                  /\ ~backupOnStartup =>
                        \A k \in Slots : cycles[k].gen # l.gen
            /\ l.tickerC # "none" => l.pc # "ticker")
    /\ [][\A l \in loops :
            l.tickerC = "none" /\ panicked' = "none" =>
               /\ l.gen \in Gens(loops')
               /\ \A m \in loops' :
                    GoesOn(l, m) /\ m # l =>
                       /\ l.pc = "precheck" /\ ~CtxDone(l.gen) =>
                             m.pc = "spawn" /\ m.tickerC = "none"
                       /\ l.pc = "spawn" =>
                             /\ m.pc = "run" /\ m.tickerC = "none"
                             /\ cycles'[m.cur].gen = l.gen
                             /\ cycles'[m.cur].phase = "exec"
                       /\ l.pc = "run" =>
                             /\ m.pc = "ticker" /\ m.tickerC = "none"
                             /\ cycles[l.cur].phase = "report"
                       /\ l.pc = "ticker" =>
                             m.pc = "select" /\ m.tickerC = "empty"]_vars

\* C11, its case: run-on-startup is configured, the context is live, the
\* startup cycle has run to completion and the ticker is about to be made.
C11_Witness ==
    /\ backupOnStartup
    /\ \E l \in loops :
          l.pc = "ticker" /\ l.tickerC = "none" /\ ~CtxDone(l.gen)

\* C12: no outcome of a cycle aborts the loop: when runner.Run returns,
\* failed or not, the scheduler stays Running and the loop goes on to make
\* its ticker or to its select; and a loop in its select that has no
\* shutdown signal leaves it only by taking a tick, which starts another
\* cycle unless the context is cancelled in between.
C12_LoopSurvives ==
    /\ [][\A l \in loops :
            l.pc = "run" /\ panicked' = "none" =>
               /\ running'
               /\ l.gen \in Gens(loops')
               /\ \A m \in loops' :
                    GoesOn(l, m) /\ m.pc # "run" =>
                       /\ cycles[l.cur].phase = "report"
                       /\ m.pc = (IF l.tickerC = "none" THEN "ticker"
                                                        ELSE "select")]_vars
    /\ [][\A l \in loops :
            l.tickerC # "none" /\ NoSignal(l) /\ panicked' = "none" =>
               /\ l.gen \in Gens(loops')
               /\ \A m \in loops' :
                    GoesOn(l, m) /\ m.pc # l.pc =>
                       /\ l.pc = "select" =>
                             m.pc = "precheck" /\ l.tickerC = "full"
                       /\ l.pc = "precheck" => m.pc = "spawn"
                       /\ l.pc = "spawn" =>
                             m.pc = "run" /\ cycles'[m.cur].phase = "exec"]_vars

\* C12, its case: a cycle started by a tick has failed and is about to
\* return to a loop that has no shutdown signal.
C12_Witness ==
    \E l \in loops :
        /\ l.pc = "run"
        /\ l.tickerC # "none"
        /\ NoSignal(l)
        /\ cycles[l.cur].phase = "report"
        /\ cycles[l.cur].result = "failed"

\* min(a, b)
Min(a, b) == IF a <= b THEN a ELSE b

\* C15: for every attempt number n >= 1 and every policy with
\* 0 <= InitialDelay <= MaxDelay, the delay calculateDelay gives for
\* attempt n is min(MaxDelay, InitialDelay * 2^(n-1)).
C15_Backoff ==
    doPc = "wait" /\ retry.InitialDelay <= retry.MaxDelay =>
       delay = Min(retry.MaxDelay, retry.InitialDelay * Pow2(attempt - 1))

\* Do has returned.
Returned == doPc = "returned"

\* The attempts made so far.
Attempts == 1..Len(calls)

\* Attempt i received a response, body included, with a retryable status.
RetryableAt(i) == calls[i] \in Responses /\ calls[i].status \in Retryable

\* Attempt i was answered with a retryable status, its body read or not.
RetryableStatusAt(i) ==
    calls[i].kind = "response" /\ calls[i].status \in Retryable

\* Attempt i received a response, body included, with another status.
FinalAt(i) == calls[i] \in Responses /\ calls[i].status \notin Retryable

\* C13: with MaxAttempts = N >= 1, a context never cancelled, a request
\* whose body (if any) can be read and a target that answers every attempt
\* with a retryable status, Do makes exactly N attempts: never more, and it
\* does not return before the N-th.
C13_RetryableCalledN ==
    /\ retry.MaxAttempts >= 1
    /\ ~reqCtx
    /\ ~body.broken
    /\ \A i \in Attempts : RetryableStatusAt(i)
    => /\ Len(calls) <= retry.MaxAttempts
       /\ Returned => Len(calls) = retry.MaxAttempts

\* C13, its case: the largest policy, every attempt answered 503, and Do
\* has returned.
C13_Witness ==
    /\ Returned
    /\ ~reqCtx
    /\ retry.MaxAttempts = MaxTries
    /\ Len(calls) = MaxTries
    /\ \A i \in Attempts : RetryableAt(i) /\ calls[i].status = 503

\* C14: a target that answers the first attempt with a status that is not
\* retryable is called once, whatever MaxAttempts, and Do returns that
\* response with a nil error.
C14_FinalStatusOnce ==
    Len(calls) >= 1 /\ FinalAt(1) =>
       /\ Returned
       /\ Len(calls) = 1
       /\ ret = [resp |-> 1, err |-> NoError]

\* C14, its case: the largest policy, one attempt, answered 400.
C14_Witness ==
    /\ Returned
    /\ retry.MaxAttempts = MaxTries
    /\ Len(calls) = 1
    /\ calls[1].status = 400
    /\ ret.resp = 1

\* C16: when the calling context is cancelled while Do waits between two
\* attempts and the delay has not elapsed, Do leaves the wait only by
\* returning: no response, the context's error and not the error of
\* exhausted attempts, and no further attempt.
C16_CancelledInWait ==
    [][doPc = "wait" /\ reqCtx /\ ~timerC /\ doPc' # "wait" =>
          /\ doPc' = "returned"
          /\ ret' = [resp |-> 0, err |-> <<"ctx", 0>>]
          /\ calls' = calls]_vars

\* C16, its case: the last attempt was answered 503 (the context was not
\* cancelled then), attempts remained, and Do has returned the context's
\* error before the delay elapsed.
C16_Witness ==
    /\ Returned
    /\ reqCtx
    /\ ~timerC
    /\ Len(calls) \in 1..(retry.MaxAttempts - 1)
    /\ RetryableAt(Len(calls))
    /\ ret.resp = 0
    /\ ret.err[1] = "ctx"

\* Do has made all of its MaxAttempts >= 1 attempts and has returned, and
\* no attempt ended in a response with a status that is not retryable.
ExhaustedAttempts ==
    /\ Returned
    /\ retry.MaxAttempts >= 1
    /\ Len(calls) = retry.MaxAttempts
    /\ \A i \in Attempts : ~FinalAt(i)

\* The last attempt that received a response, 0 when none did.
LastResponse ==
    LET got == {i \in Attempts : calls[i] \in Responses}
    IN  IF got = {} THEN 0 ELSE CHOOSE i \in got : \A j \in got : j <= i

\* C17, as amended: when Do exhausts its attempts without an outcome that
\* is not retryable, it returns the last attempt's response with a nil
\* error if the last attempt received one, and otherwise no response and
\* an error of exhaustion that wraps the last attempt's error.
C17_Exhausted ==
    ExhaustedAttempts =>
       LET n == Len(calls)
       IN  IF calls[n] \in Responses
           THEN ret = [resp |-> n, err |-> NoError]
           ELSE /\ ret.resp = 0
                /\ ret.err[1] = "exhausted"
                /\ ret.err[2][2] = n
                /\ ret.err[2][1] =
                      IF calls[n] = TransportFailure THEN "transport"
                      ELSE "read"

\* C17, its case: a response on the first attempt, a transport failure on
\* the last, and Do has returned the error of exhaustion.
C17_Witness ==
    /\ ExhaustedAttempts
    /\ retry.MaxAttempts = MaxTries
    /\ RetryableAt(1)
    /\ calls[Len(calls)] = TransportFailure
    /\ ret.err[1] = "exhausted"

\* C17 as stated: when Do exhausts its attempts without an outcome that is
\* not retryable, it returns the last response any attempt received (if
\* one did) together with a non-nil error describing exhaustion.
C17_AsStated ==
    ExhaustedAttempts =>
       /\ ret.err[1] = "exhausted"
       /\ ret.resp = LastResponse

\* C18: when every one of the MaxAttempts attempts is answered with a
\* retryable status, Do returns the last attempt's response, whose status
\* is that retryable status, with a nil error.
C18_LastRetryableReturned ==
    /\ Returned
    /\ retry.MaxAttempts >= 1
    /\ Len(calls) = retry.MaxAttempts
    /\ \A i \in Attempts : RetryableAt(i)
    => /\ ret = [resp |-> retry.MaxAttempts, err |-> NoError]
       /\ calls[ret.resp].status \in Retryable

\* C18, its case: three attempts answered 500, 502 and 429, and Do has
\* returned the third response.
C18_Witness ==
    /\ Returned
    /\ retry.MaxAttempts = 3
    /\ Len(calls) = 3
    /\ calls[1].status = 500 /\ calls[1].body = "ok"
    /\ calls[2].status = 502 /\ calls[2].body = "ok"
    /\ calls[3].status = 429 /\ calls[3].body = "ok"
    /\ ret.resp = 3

\* C19: when every attempt fails at the transport level, the context is
\* never cancelled and the request's body (if any) can be read, Do makes
\* exactly MaxAttempts attempts, failures being retried, and returns no
\* response and an error that wraps the last transport error.
C19_TransportRetried ==
    /\ retry.MaxAttempts >= 1
    /\ ~reqCtx
    /\ ~body.broken
    /\ \A i \in Attempts : calls[i] = TransportFailure
    => /\ Len(calls) <= retry.MaxAttempts
       /\ Returned =>
             /\ Len(calls) = retry.MaxAttempts
             /\ ret = [resp |-> 0,
                       err |-> <<"exhausted",
                                 <<"transport", retry.MaxAttempts>>>>]

\* C19, its case: the largest policy, every attempt a transport failure,
\* the context live, and Do has returned.
C19_Witness ==
    /\ Returned
    /\ ~reqCtx
    /\ retry.MaxAttempts = MaxTries
    /\ Len(calls) = MaxTries
    /\ \A i \in Attempts : calls[i] = TransportFailure
    /\ ret.resp = 0

\* C20: when the first k < MaxAttempts attempts are answered with a
\* retryable status and attempt k+1 with a status that is not retryable,
\* Do makes exactly k+1 attempts and returns the response of attempt k+1
\* with a nil error.
C20_SuccessAfterRetries ==
    \A k \in 0..MaxTries :
        /\ k < retry.MaxAttempts
        /\ Len(calls) > k
        /\ \A i \in 1..k : RetryableAt(i)
        /\ FinalAt(k + 1)
        => /\ Returned
           /\ Len(calls) = k + 1
           /\ ret = [resp |-> k + 1, err |-> NoError]

\* C20, its case: 503 twice, then 200 on the third and last attempt, which
\* Do has returned.
C20_Witness ==
    /\ Returned
    /\ retry.MaxAttempts = 3
    /\ Len(calls) = 3
    /\ RetryableAt(1) /\ RetryableAt(2)
    /\ calls[3].status = 200 /\ calls[3].body = "ok"
    /\ ret = [resp |-> 3, err |-> NoError]

\* Run has returned.
RunReturned == runPc = "returned"

\* The places of event e among the events.
Places(e) == {i \in 1..Len(events) : events[i] = e}

\* The places of the returns of a call: of an operation, of Push, of Notify.
OperationReturns(op) ==
    Places(op \o ".ok") \cup Places(op \o ".failed") \cup Places(op \o ".err")
PushReturned == Places("Push.ret") \cup Places("Push.err")
Notified == Places("Notify.info") \cup Places("Notify.error")

\* Every event at a place of later has an event at a place of earlier
\* before it.
Precede(earlier, later) == \A j \in later : \E i \in earlier : i < j

\* C21: within one Run the events keep one order: CloudUpload is invoked
\* and has returned before Backup is invoked, and the metrics push has
\* returned before the notification policy is evaluated and before a
\* notification is sent.
C21_FixedOrder ==
    /\ Precede(Places("CloudUpload"), OperationReturns("CloudUpload"))
    /\ Precede(OperationReturns("CloudUpload"), Places("Backup"))
    /\ Precede(Places("Backup"), OperationReturns("Backup"))
    /\ Places("Push") # {} =>
          /\ Precede(PushReturned, Places("Evaluate"))
          /\ Precede(PushReturned, Notified)
    /\ Precede(Places("Evaluate"), Notified)
    /\ runPc = "notify" /\ metricsPusher = "set" => PushReturned # {}

\* C21, its case: a live Run with every collaborator, whose CloudUpload
\* succeeded and whose Backup failed, has returned after ten events.
C21_Witness ==
    /\ RunReturned
    /\ events = <<"CloudUpload", "CloudUpload.ok", "Backup", "Backup.failed",
                  "Complete", "Push", "Push.ret", "Evaluate", "Notify.error",
                  "Notify.ret">>

\* The texts in a list of errors.
Texts(errors) == {errors[i] : i \in 1..Len(errors)}

\* The outcome of operation op (its name in the events), if it has
\* returned, is in the result: field is the operation result of kind type
\* with the success flag and the error text the executor gave, or, when
\* the executor gave an error, field is nil and the error is in the list.
Recorded(op, type, field, text, errors) ==
    /\ Places(op \o ".ok") # {} => field.Operation = type /\ field.Success
    /\ Places(op \o ".failed") # {} =>
          field.Operation = type /\ ~field.Success /\ field.Error # ""
    /\ Places(op \o ".err") # {} => field = NilResult /\ text \in Texts(errors)

\* C22: a live Run with an executor invokes CloudUpload exactly once and
\* Backup exactly once, whatever CloudUpload gave (a result, successful or
\* not, or an error), and both outcomes are in the result it returns.
C22_BothAttempted ==
    ~config.DryRun /\ executor = "set" =>
       /\ Cardinality(Places("CloudUpload")) <= 1
       /\ Cardinality(Places("Backup")) <= 1
       /\ runPc \in {"complete", "push", "pushing", "notify", "notifying",
                     "return", "returned"} =>
             /\ Cardinality(OperationReturns("CloudUpload")) = 1
             /\ Cardinality(OperationReturns("Backup")) = 1
       /\ RunReturned =>
             /\ Recorded("CloudUpload", "cloud_upload",
                         runRet.result.CloudUpload, "cloud upload error",
                         runRet.result.Errors)
             /\ Recorded("Backup", "backup", runRet.result.Backup,
                         "backup error", runRet.result.Errors)

\* C22, its case: CloudUpload gave an error, Backup was invoked all the
\* same and succeeded, and Run has returned.
C22_Witness ==
    /\ RunReturned
    /\ Places("CloudUpload.err") # {}
    /\ Places("Backup.ok") # {}
    /\ runRet.result.Backup.Success
    /\ runRet.result.Errors = <<"cloud upload error">>

C24_UploadFailed ==
    /\ RunReturned
    /\ Places("CloudUpload.failed") \cup Places("CloudUpload.err") # {}
    /\ Places("Backup.ok") # {}
    => /\ ~runRet.result.Success
       /\ runRet.result.CloudUpload.Operation = "cloud_upload"
       /\ runRet.result.Backup.Operation = "backup"

\* C25: every operation that fails in a cycle leaves both an error text in
\* its operation result and an entry in the result's list of errors.
C25_FailureRecordedTwice ==
    RunReturned =>
       /\ Places("CloudUpload.failed") \cup Places("CloudUpload.err") # {} =>
             /\ runRet.result.CloudUpload.Error # ""
             /\ "cloud upload error" \in Texts(runRet.result.Errors)
       /\ Places("Backup.failed") \cup Places("Backup.err") # {} =>
             /\ runRet.result.Backup.Error # ""
             /\ "backup error" \in Texts(runRet.result.Errors)

\* C26: a Run with a metrics pusher (and a notifier) pushes the metrics
\* exactly once and evaluates the notification policy exactly once,
\* sending at most one notification, whatever the operations gave and
\* whether or not its context is cancelled; a push that fails is in the
\* list of errors and the policy is evaluated all the same; a
\* notification that fails is neither returned nor in the result.
C26_ReportedOnce ==
    metricsPusher = "set" /\ notifier = "set" =>
       /\ Cardinality(Places("Push")) <= 1
       /\ Cardinality(Places("Evaluate")) <= 1
       /\ Cardinality(Notified) <= 1
       /\ RunReturned =>
             /\ Cardinality(Places("Push")) = 1
             /\ Cardinality(PushReturned) = 1
             /\ Cardinality(Places("Evaluate")) = 1
             /\ Places("Push.err") # {} <=>
                   "push error" \in Texts(runRet.result.Errors)
             /\ runRet.err = "nil"
             /\ "notify error" \notin Texts(runRet.result.Errors)

\* C26, its case: the context is cancelled, both operations gave errors,
\* the push failed and the notification failed, and Run has returned.
C26_Witness ==
    /\ RunReturned
    /\ runCtx
    /\ events = <<"CloudUpload", "CloudUpload.err", "Backup", "Backup.err",
                  "Complete", "Push", "Push.err", "Evaluate", "Notify.info",
                  "Notify.err">>
    /\ runRet.result.Errors =
          <<"cloud upload error", "backup error", "push error">>

\* C27: Run always returns its result, completed, and a nil error,
\* whatever the executor, the push and the notification gave and whether
\* or not the context is cancelled.
C27_NilError ==
    RunReturned =>
       /\ runRet.err = "nil"
       /\ runRet.result = runResult
       /\ runRet.result.Completed
       /\ runRet.result.DryRun = config.DryRun

\* C27, its case: both operations failed, the push and the notification
\* failed, the context is cancelled, and Run has returned.
C27_Witness ==
    /\ RunReturned
    /\ runCtx
    /\ ~runRet.result.Success
    /\ Places("CloudUpload.failed") # {}
    /\ Places("Backup.failed") # {}
    /\ Places("Push.err") # {}
    /\ Places("Notify.err") # {}

\* C28: the notification policy, with a notifier: under level always one
\* notification is sent, of severity info on success and error on
\* failure; under level error and under level warning one notification
\* of severity error is sent on failure and none on success.
C28_NotifyPolicy ==
    RunReturned /\ notifier = "set" =>
       LET info == Cardinality(Places("Notify.info"))
           error == Cardinality(Places("Notify.error"))
           ok == runRet.result.Success
       IN  /\ config.Notify = "always" /\ ok => info = 1 /\ error = 0
           /\ config.Notify = "always" /\ ~ok => info = 0 /\ error = 1
           /\ config.Notify \in {"error", "warning"} /\ ok =>
                 info = 0 /\ error = 0
           /\ config.Notify \in {"error", "warning"} /\ ~ok =>
                 info = 0 /\ error = 1

\* C28, its case: under level warning a cycle failed and one notification
\* of severity error was sent.
C28_Witness ==
    /\ RunReturned
    /\ config.Notify = "warning"
    /\ ~runRet.result.Success
    /\ Cardinality(Places("Notify.error")) = 1

\* C29: the Success flag of the result Run returns is the conjunction of
\* the success flags of the operation results in it (true when there is
\* none), and nothing after Complete, neither the push nor the
\* notification, changes it.
C29_SuccessIsConjunction ==
    /\ [](RunReturned =>
            runRet.result.Success =
               \A r \in {runRet.result.CloudUpload, runRet.result.Backup} :
                  r # NilResult => r.Success)
    /\ [][runResult.Completed =>
            runResult'.Success = runResult.Success]_vars

\* C29, its case: no executor, so no operation ran; the push and the
\* notification failed; Run has returned Success.
C29_Witness ==
    /\ RunReturned
    /\ executor = "nil"
    /\ runRet.result.CloudUpload = NilResult
    /\ runRet.result.Backup = NilResult
    /\ runRet.result.Success
    /\ Places("Push.err") # {}
    /\ Places("Notify.err") # {}

\* C30: once a shutdown signal has been issued (Stop has closed the stop
\* channel, or the governing context is cancelled), the loop starts no new
\* cycle, even when a tick is pending when the loop next selects: a call of
\* runBackup that finds the signal issued at its pre-check does not go on
\* to runner.Run.
C30_NoCycleAfterSignal ==
    [][\A l \in loops :
          l.pc = "precheck" /\ ~NoSignal(l)
          => \A m \in loops' : m.gen = l.gen => m.pc # "spawn"]_vars

\* C31: Stop() may be called more than once: a Stop() called after another
\* has closed the stop channel and before the loop has torn down (running
\* still true) does not close the channel again: no step taken then ends
\* in a panic.
C31_StopTwice ==
    [][running /\ <<"stop", stopCh>> \in closedCh => panicked' = "none"]_vars

\* C32: Stopped is re-enterable. A Start made once the previous call has
\* torn down enters Running again under channels that no earlier loop or
\* blocked Stop() holds and that are open; a Stop() closes the stop channel
\* of the loop that is running then, never an earlier one's; and a Stop()
\* still blocked on an earlier loop holds that loop's stopped channel, which
\* the earlier teardown closed and which the new Start leaves closed.
C32_Reenterable ==
    /\ [][~running /\ running' =>
            /\ loops = {}
            /\ loops' # {}
            /\ Gens(loops') = {stopCh'}
            /\ stoppedCh' = stopCh'
            /\ waiting[stopCh'] = 0
            /\ waiting' = waiting
            /\ <<"stop", stopCh'>> \notin closedCh'
            /\ <<"stopped", stopCh'>> \notin closedCh']_vars
    /\ [][\A i \in Ids :
            <<"stop", i>> \in closedCh' \ closedCh =>
               i = stopCh /\ i \in Gens(loops) /\ running]_vars
    /\ [](\A i \in Ids :
            waiting[i] > 0 /\ i \notin Gens(loops) =>
               <<"stopped", i>> \in closedCh)

\* C32, its case: the second loop runs a cycle, its channels open, while a
\* Stop() that stopped the first loop has not yet returned.
C32_Witness ==
    \E l \in loops :
        /\ l.gen = 2
        /\ l.pc = "run"
        /\ InFlight(l.cur)
        /\ waiting[1] > 0
        /\ <<"stopped", 1>> \in closedCh
        /\ <<"stop", 2>> \notin closedCh
        /\ <<"stopped", 2>> \notin closedCh

\* C33: IsRunning() is true in exactly the states between a Start call
\* passing its already-running check and that call's teardown: it is true
\* while such a call is anywhere in its startup cycle, its loop, a grace
\* period or its final push, false initially and once the call has torn
\* down; only the teardown of that call clears it, and a Start that
\* returned nil at once leaves it true.
C33_IsRunning ==
    /\ [](IsRunning <=> loops # {})
    /\ [](starts = 0 => ~IsRunning)
    /\ [][IsRunning /\ ~IsRunning' /\ panicked' = "none" =>
            \E l \in loops : Returns(l) /\ lastRet' = ReturnValue(l.exit)]_vars
    /\ [][IsRunning /\ loops' = loops /\ lastRet' # lastRet => IsRunning']_vars

\* C33, its case: a second Start has returned nil at once, and IsRunning()
\* is true while the first call makes its final push after a grace period.
C33_Witness ==
    \E l \in loops :
        /\ l.gen = 1
        /\ l.pc = "pushing"
        /\ l.shutdown # "none"
        /\ lastRet = "nil"
        /\ IsRunning

\* C34: the monitor of a cycle always ends once the cycle has returned,
\* shutdown requested or not: a monitor whose cycle has returned (done is
\* closed) waits on no grace timer and ends; and the only context a step
\* cancels while its cycle is in flight is the one of the cycle whose own
\* monitor saw the grace timer fire, so the monitor of a finished cycle
\* cancels no later cycle's context.
C34_MonitorEnds ==
    /\ [](\A k \in Slots :
            cycles[k].done => cycles[k].mon \in {"ending", "exit"}
                              /\ ~cycles[k].timer)
    /\ [][\A k \in Slots :
            InFlight(k) /\ cycles'[k].gen # 0 /\ ~BackupCtxDone(k)
              /\ cycles'[k].cancelled /\ cycles'[k].phase # "closed" =>
               /\ cycles[k].mon = "grace" /\ cycles[k].timer
               /\ \A j \in Slots \ {k} : cycles'[j] = cycles[j]]_vars
    /\ \A k \in Slots : []<>(cycles[k].mon # "ending")

\* C34, its case: the monitor of a cycle that returned during shutdown has
\* not ended yet.
C34_Witness ==
    \E k \in Slots :
        /\ cycles[k].done
        /\ cycles[k].mon = "ending"
        /\ CtxDone(cycles[k].gen)

C36_WaitBeforeRetry ==
    [][attempt' = attempt + 1 /\ attempt' <= retry.MaxAttempts =>
          doPc = "wait" /\ timerC]_vars

\* C37: when the request has a body, Client.Do reads it to its end once,
\* before the first attempt, and the request of every attempt, the first
\* and each retry, carries a body identical to the original (a request
\* with no body carries none); when that read fails Do returns an error
\* and no response, having made no attempt.
C37_BodyReplayed ==
    /\ [](Len(sent) = Len(calls))
    /\ [](\A i \in 1..Len(sent) :
            sent[i] = IF body.nil THEN NilBytes ELSE Bytes(body.data))
    /\ [](Len(calls) > 0 /\ ~body.nil =>
            /\ body.pos = Len(body.data)
            /\ ~body.broken
            /\ bodyBytes = Bytes(body.data))
    /\ [][body' # body => doPc = "readbody" /\ calls = <<>>]_vars
    /\ [][doPc = "readbody" /\ body.broken =>
            /\ doPc' = "returned"
            /\ ret' = [resp |-> 0, err |-> ReqBodyErr]
            /\ calls' = <<>>]_vars
    /\ [](body.broken => calls = <<>>)

\* C37, its case: the third attempt of a request with a body of two bytes
\* has been made, after two attempts that failed in different ways.
C37_Witness ==
    /\ Len(sent) = 3
    /\ body.data = <<1, 2>>
    /\ sent[3] = Bytes(<<1, 2>>)
    /\ calls[1] = TransportFailure
    /\ calls[2].kind = "response"

\* C38: once Complete has been called on the result of a cycle no field of
\* it changes: in Runner.Run the result, its success flag, its operation
\* results and its list of errors, is at every later step, up to the
\* return of Run, what it was when Complete returned.
C38_ImmutableOnceComplete ==
    [][runResult.Completed => runResult' = runResult]_vars

\* The lines of the message of notification n.
Lines(n) == {n.msg[i] : i \in 1..Len(n.msg)}

\* C39: the message of a failure notification lists the error of every
\* operation result that is present and unsuccessful, and every entry of
\* the result's list of errors as it stands when the notification is
\* built, the error of a failed metrics push of the same cycle included;
\* the notification Notify is given is the one built then.
C39_FailureMessage ==
    /\ [](notification.severity = "error" =>
            /\ Places("Notify.error") # {}
            /\ \A r \in {runResult.CloudUpload, runResult.Backup} :
                  r # NilResult /\ ~r.Success =>
                     \E l \in Lines(notification) : l[2] = r.Error
            /\ <<"Cloud upload error", "exit status 1">> \in Lines(notification)
                  <=> Places("CloudUpload.failed") # {}
            /\ <<"Backup error", "exit status 1">> \in Lines(notification)
                  <=> Places("Backup.failed") # {}
            /\ \A e \in Texts(runResult.Errors) :
                  <<"Error", e>> \in Lines(notification)
            /\ Places("Push.err") # {} =>
                  <<"Error", "push error">> \in Lines(notification))
    /\ [](Places("Notify.error") # {} => notification.severity = "error")
    /\ [][notification # NoNotification => notification' = notification]_vars

\* C39, its case: a failure notification was sent in a cycle whose upload
\* gave an unsuccessful result, whose backup gave an error and whose
\* metrics push failed.
C39_Witness ==
    /\ notification.severity = "error"
    /\ Places("CloudUpload.failed") # {}
    /\ Places("Backup.err") # {}
    /\ Places("Push.err") # {}
    /\ Len(notification.msg) = 4
====
